---- MODULE Spec2Model ----
(***************************************************************************)
(* Model of ov/power_state.go: the PowerTask orchestrator and the          *)
(* PowerExecutor submit-and-poll state machine.                            *)
(*                                                                         *)
(* Go strings that the code compares through strings.ToUpper are tuples of *)
(* one-character strings; URIs are tuples of path segments, so that        *)
(* strings.Join is a real concatenation.  The PowerExecutor goroutine      *)
(* ("main") and the goroutine started by `go pt.SubmitPowerState(s)`        *)
(* ("sub") interleave at the granularity of their accesses to the shared   *)
(* PowerTask and of their remote calls.                                    *)
(***************************************************************************)
EXTENDS Integers, Sequences, FiniteSets, TLC

VARIABLES
    pt,          \* the shared *PowerTask: Blade, State, TaskStatus, CurrentTask, Timeout
    pc,          \* position of the PowerExecutor caller
    s,           \* PowerExecutor's parameter s
    currenttime, \* PowerExecutor's local currenttime
    uri,         \* GetCurrentTaskStatus's local uri
    data,        \* GetCurrentTaskStatus's local data (the GET response)
    ret,         \* PowerExecutor's return value
    attempt,     \* number of PowerExecutor invocations so far
    sub,         \* sub[a]: the SubmitPowerState goroutine spawned by invocation a
    net,         \* observation: the remote calls issued
    log,         \* observation: the logging sink
    obs          \* observation: what the current invocation has done

vars == <<pt, pc, s, currenttime, uri, data, ret, attempt, sub, net, log, obs>>

(***************************************************************************)
(* Bounds                                                                  *)
(***************************************************************************)
MaxTimeout  == 2   \* largest pt.Timeout explored
MaxAttempts == 2   \* PowerExecutor invocations on one PowerTask
MaxStrLen   == 3   \* longest remote power-state string in the classification runs

(***************************************************************************)
(* strings.ToUpper                                                         *)
(***************************************************************************)
LowerLetters == <<"a","b","c","d","e","f","g","h","i","j","k","l","m",
                  "n","o","p","q","r","s","t","u","v","w","x","y","z">>
UpperLetters == <<"A","B","C","D","E","F","G","H","I","J","K","L","M",
                  "N","O","P","Q","R","S","T","U","V","W","X","Y","Z">>

ToUpperChar(c) ==
    IF \E i \in DOMAIN LowerLetters : LowerLetters[i] = c
    THEN UpperLetters[CHOOSE i \in DOMAIN LowerLetters : LowerLetters[i] = c]
    ELSE c

ToUpper(str) == [i \in 1..Len(str) |-> ToUpperChar(str[i])]

(***************************************************************************)
(* PowerState and PowerControl                                             *)
(***************************************************************************)
P_ON     == 1
P_OFF    == 2
P_UKNOWN == 3

PowerStates == {P_ON, P_OFF, P_UKNOWN}

powerstates == << <<"O","n">>, <<"O","f","f">>, <<"U","N","K","N","O","W","N">> >>

\* powerstates[p-1] over a zero-based array
PowerStateString(p) == powerstates[(p - 1) + 1]

\* line 34 without strings.ToUpper
PowerStateEqualExact(p, str) == str = PowerStateString(p)

PowerStateEqual(p, str) == ToUpper(str) = ToUpper(PowerStateString(p))

P_COLDBOOT == 1
P_MOMPRESS == 2
P_RESET    == 3

powercontrols == << <<"C","o","l","d","B","o","o","t">>,
                    <<"M","o","m","e","n","t","a","r","y","P","r","e","s","s">>,
                    <<"R","e","s","e","t">> >>

PowerControlString(c) == powercontrols[(c - 1) + 1]

PowerRequest(state, control) == [powerState |-> state, powerControl |-> control]

(***************************************************************************)
(* Task (ov/task.go): the handle of a remote asynchronous operation        *)
(***************************************************************************)
EmptyString == <<>>
EmptyURI    == <<>>

EmptyTask == [URI |-> EmptyURI, Name |-> EmptyString, Owner |-> EmptyString,
              TaskState |-> EmptyString]

T_COMPLETED_String == <<"C","o","m","p","l","e","t","e","d">>

TaskStateCompletedEqual(str) == ToUpper(str) = ToUpper(T_COMPLETED_String)

\* json.Unmarshal into an existing struct: the fields the document carries are
\* overwritten, the others are kept.
Unmarshal(task, fields) ==
    [f \in DOMAIN task |-> IF f \in DOMAIN fields THEN fields[f] ELSE task[f]]

(***************************************************************************)
(* The remote system (rest client, ov/server_hardware.go): what a call may *)
(* answer.                                                                 *)
(***************************************************************************)
HardwareURI == <<"rest", "server-hardware", "1">>
TaskURI     == <<"rest", "tasks", "1">>

Timeouts == -1..MaxTimeout

ErrNil        == "nil"
ErrNoHardware == "Can't get power on blade without hardware"
ErrTransport  == "transport failure"
ErrDecode     == "decode failure"

TaskStateRunning   == <<"R","u","n","n","i","n","g">>
TaskStateLowerCase == <<"c","o","m","p","l","e","t","e","d">>
TaskName           == <<"P","o","w","e","r">>
TaskOwner          == <<"a","d","m","i","n">>

\* Power-state strings the hardware lookup reports in the executor runs.
RemotePowerStrings ==
    { <<"O","n">>, <<"o","N">>, <<"O","f","f">>, <<"U","N","K","N","O","W","N">> }

\* Every string of at most MaxStrLen characters, for the classification runs.
Alphabet == {"O", "o", "N", "n", "F", "f", "x"}
AllPowerStrings == UNION { [1..k -> Alphabet] : k \in 0..MaxStrLen }

\* Client.GetServerHardware(uri): the hardware at uri, or a transport error.
GetServerHardware(u, strings) ==
    { [err |-> ErrTransport, hw |-> [URI |-> u, PowerState |-> EmptyString]] }
    \cup { [err |-> ErrNil, hw |-> [URI |-> u, PowerState |-> str]] : str \in strings }

\* The body of a response as json.Unmarshal sees it: the Task fields it sets, and
\* whether it reports an error (a syntax error sets nothing; a type error is
\* reported after the other fields were set).
TaskDocuments ==
    { [ok |-> TRUE,  fields |-> ("URI" :> TaskURI @@ "Name" :> TaskName
                                  @@ "TaskState" :> TaskStateRunning)],
      [ok |-> TRUE,  fields |-> ("URI" :> TaskURI @@ "Owner" :> TaskOwner
                                  @@ "TaskState" :> T_COMPLETED_String)],
      [ok |-> TRUE,  fields |-> ("URI" :> TaskURI @@ "TaskState" :> TaskStateLowerCase)],
      [ok |-> TRUE,  fields |-> ("TaskState" :> T_COMPLETED_String)],
      [ok |-> FALSE, fields |-> <<>>],
      [ok |-> FALSE, fields |-> ("URI" :> TaskURI)] }

NoData == [ok |-> TRUE, fields |-> <<>>]

\* Client.RestAPICall(method, uri, body): a transport error or a response body.
RestAPICall ==
    { [err |-> ErrTransport, data |-> NoData] }
    \cup { [err |-> ErrNil, data |-> d] : d \in TaskDocuments }

(***************************************************************************)
(* PowerTask                                                               *)
(***************************************************************************)
StaleTask == [URI |-> TaskURI, Name |-> TaskName, Owner |-> TaskOwner,
              TaskState |-> T_COMPLETED_String]

NoSub == [pc |-> "none", s |-> P_UKNOWN, uri |-> EmptyURI,
          body |-> PowerRequest(EmptyString, EmptyString), data |-> NoData,
          queried |-> 0, outcome |-> "none"]

\* What an invocation entered with PowerTask p has done so far: nothing.
NoObs(p) == [checks |-> 0, sleeps |-> 0, gets |-> 0, warned |-> 0,
             mainDone |-> FALSE, pollErr |-> ErrNil, doneRead |-> "none",
             prior |-> p]

\* NewPowerTask, lines 67-74, for blade b, with the Timeout the caller then sets
NewPowerTask(b, t) ==
    [Blade       |-> b,
     State       |-> P_UKNOWN,
     TaskStatus  |-> FALSE,
     CurrentTask |-> EmptyTask,
     Timeout     |-> t]

Blades == { [URI |-> u, PowerState |-> EmptyString] : u \in {EmptyURI, HardwareURI} }

\* Every value the exported fields State, TaskStatus and CurrentTask may hold.
AnyPowerTask ==
    { [NewPowerTask(b, t) EXCEPT !.State = st, !.TaskStatus = ts, !.CurrentTask = ct] :
        b \in Blades, t \in Timeouts,
        st \in PowerStates, ts \in BOOLEAN, ct \in {EmptyTask, StaleTask} }

\* A PowerTask as a caller holds it before PowerExecutor: freshly built, or left
\* over from earlier use.
UsedPowerTask ==
    { p \in AnyPowerTask :
        <<p.State, p.TaskStatus, p.CurrentTask>> \in
            { <<P_UKNOWN, FALSE, EmptyTask>>, <<P_ON, TRUE, StaleTask>>,
              <<P_OFF, TRUE, EmptyTask>>, <<P_OFF, FALSE, StaleTask>> } }

InitRest ==
    /\ s = P_UKNOWN
    /\ currenttime = 0
    /\ uri = EmptyURI
    /\ data = NoData
    /\ ret = "none"
    /\ attempt = 0
    /\ sub = [a \in 1..MaxAttempts |-> NoSub]
    /\ net = [lookups |-> 0, puts |-> <<>>, gets |-> 0]
    /\ log = [unknownWarn |-> 0, timeoutWarn |-> 0, errors |-> 0]
    /\ obs = NoObs(pt)

Init == pt \in UsedPowerTask /\ InitRest /\ pc = "idle"

(***************************************************************************)
(* ResetTask, lines 77-81                                                  *)
(***************************************************************************)
ResetState ==
    /\ pc = "reset_state"
    /\ pt' = [pt EXCEPT !.State = P_UKNOWN]
    /\ pc' = "reset_status"
    /\ UNCHANGED <<s, currenttime, uri, data, ret, attempt, sub, net, log, obs>>

\* line 79 left out
ResetStatusKeepsFlag ==
    /\ pc = "reset_status"
    /\ pc' = "reset_current"
    /\ UNCHANGED <<pt, s, currenttime, uri, data, ret, attempt, sub, net, log, obs>>

ResetStatus ==
    /\ pc = "reset_status"
    /\ pt' = [pt EXCEPT !.TaskStatus = FALSE]
    /\ pc' = "reset_current"
    /\ UNCHANGED <<s, currenttime, uri, data, ret, attempt, sub, net, log, obs>>

\* line 80 left out
ResetCurrentTaskKeepsHandle ==
    /\ pc = "reset_current"
    /\ pc' = "spawn"
    /\ UNCHANGED <<pt, s, currenttime, uri, data, ret, attempt, sub, net, log, obs>>

ResetCurrentTask ==
    /\ pc = "reset_current"
    /\ pt' = [pt EXCEPT !.CurrentTask = EmptyTask]
    /\ pc' = "spawn"
    /\ UNCHANGED <<s, currenttime, uri, data, ret, attempt, sub, net, log, obs>>

(***************************************************************************)
(* GetCurrentPowerState, lines 84-104, as a function of the PowerTask and  *)
(* of the answer r of the hardware lookup (not asked when the URI is empty) *)
(***************************************************************************)
\* line 86 without the check
NoHardwareUnchecked(blade) == FALSE

\* line 86
NoHardware(blade) == blade.URI = EmptyURI

\* line 90 with the state reset as line 86 resets it
GetCurrentPowerStateResetsOnError(p, r) ==
    IF NoHardware(p.Blade)
    THEN [pt |-> [p EXCEPT !.State = P_UKNOWN], err |-> ErrNoHardware,
          lookups |-> 0, warned |-> 0]
    ELSE IF r.err # ErrNil
    THEN [pt |-> [p EXCEPT !.State = P_UKNOWN], err |-> r.err,
          lookups |-> 1, warned |-> 0]
    ELSE LET b == r.hw IN
         IF PowerStateEqual(P_OFF, b.PowerState)
         THEN [pt |-> [p EXCEPT !.State = P_OFF, !.Blade = b], err |-> ErrNil,
               lookups |-> 1, warned |-> 0]
         ELSE IF PowerStateEqual(P_ON, b.PowerState)
         THEN [pt |-> [p EXCEPT !.State = P_ON, !.Blade = b], err |-> ErrNil,
               lookups |-> 1, warned |-> 0]
         ELSE [pt |-> [p EXCEPT !.State = P_UKNOWN, !.Blade = b], err |-> ErrNil,
               lookups |-> 1, warned |-> 1]

GetCurrentPowerState(p, r) ==
    IF NoHardware(p.Blade)
    THEN [pt |-> [p EXCEPT !.State = P_UKNOWN], err |-> ErrNoHardware,
          lookups |-> 0, warned |-> 0]
    ELSE IF r.err # ErrNil
    THEN [pt |-> p, err |-> r.err, lookups |-> 1, warned |-> 0]
    ELSE LET b == r.hw IN
         IF PowerStateEqual(P_OFF, b.PowerState)
         THEN [pt |-> [p EXCEPT !.State = P_OFF, !.Blade = b], err |-> ErrNil,
               lookups |-> 1, warned |-> 0]
         ELSE IF PowerStateEqual(P_ON, b.PowerState)
         THEN [pt |-> [p EXCEPT !.State = P_ON, !.Blade = b], err |-> ErrNil,
               lookups |-> 1, warned |-> 0]
         ELSE [pt |-> [p EXCEPT !.State = P_UKNOWN, !.Blade = b], err |-> ErrNil,
               lookups |-> 1, warned |-> 1]

\* A caller invoking GetCurrentPowerState on its PowerTask, the hardware lookup
\* answering with any string of at most MaxStrLen characters.
CallGetCurrentPowerState ==
    /\ pc = "query"
    /\ \E r \in GetServerHardware(pt.Blade.URI, AllPowerStrings) :
        LET q == GetCurrentPowerState(pt, r) IN
        /\ pt' = q.pt
        /\ ret' = q.err
        /\ net' = [net EXCEPT !.lookups = @ + q.lookups]
        /\ log' = [log EXCEPT !.unknownWarn = @ + q.warned]
    /\ pc' = "queried"
    /\ UNCHANGED <<s, currenttime, uri, data, attempt, sub, obs>>

InitQuery == pt \in AnyPowerTask /\ InitRest /\ pc = "query"

SpecQuery == InitQuery /\ [][CallGetCurrentPowerState]_vars

(***************************************************************************)
(* SubmitPowerState, lines 114-147, run by the goroutine of invocation a   *)
(***************************************************************************)
\* lines 115-118 with the failure treated like the failures of lines 129-140
SubQueryFailureSetsFlag(a) ==
    /\ sub[a].pc = "query"
    /\ \E r \in GetServerHardware(pt.Blade.URI, RemotePowerStrings) :
        LET q == GetCurrentPowerState(pt, r) IN
        /\ net' = [net EXCEPT !.lookups = @ + q.lookups]
        /\ IF q.err # ErrNil
           THEN /\ pt' = [q.pt EXCEPT !.TaskStatus = TRUE]
                /\ sub' = [sub EXCEPT ![a].pc = "done", ![a].outcome = "query_failed"]
                /\ log' = [log EXCEPT !.errors = @ + 1]
           ELSE /\ pt' = q.pt
                /\ sub' = [sub EXCEPT ![a].pc = "compare", ![a].queried = q.pt.State]
                /\ log' = [log EXCEPT !.unknownWarn = @ + q.warned]
    /\ UNCHANGED <<pc, s, currenttime, uri, data, ret, attempt, obs>>

\* lines 115-118: the query of the current power state.  Within one invocation
\* only this goroutine reads or writes pt.State and pt.Blade after ResetTask, so
\* GetCurrentPowerState is one step.
SubQuery(a) ==
    /\ sub[a].pc = "query"
    /\ \E r \in GetServerHardware(pt.Blade.URI, RemotePowerStrings) :
        LET q == GetCurrentPowerState(pt, r) IN
        /\ pt' = q.pt
        /\ net' = [net EXCEPT !.lookups = @ + q.lookups]
        /\ IF q.err # ErrNil
           THEN /\ sub' = [sub EXCEPT ![a].pc = "done", ![a].outcome = "query_failed"]
                /\ log' = [log EXCEPT !.errors = @ + 1]
           ELSE /\ sub' = [sub EXCEPT ![a].pc = "compare", ![a].queried = q.pt.State]
                /\ log' = [log EXCEPT !.unknownWarn = @ + q.warned]
    /\ UNCHANGED <<pc, s, currenttime, uri, data, ret, attempt, obs>>

\* line 119 without the comparison
NeedsChangeAlways(target, state) == TRUE

\* line 119
NeedsChange(target, state) == target # state

\* line 122 with the wrong power control
PowerStateBodyColdBoot(target) ==
    PowerRequest(PowerStateString(target), PowerControlString(P_COLDBOOT))

\* lines 122-124: the request and where it goes
PowerStateBody(target) ==
    PowerRequest(PowerStateString(target), PowerControlString(P_MOMPRESS))

PowerStateURI(bladeURI) == bladeURI \o <<"powerState">>

\* lines 119-127, and 141-142 when the state is already the desired one
SubCompare(a) ==
    /\ sub[a].pc = "compare"
    /\ IF NeedsChange(sub[a].s, pt.State)
       THEN sub' = [sub EXCEPT ![a].pc = "put",
                               ![a].body = PowerStateBody(sub[a].s),
                               ![a].uri = PowerStateURI(pt.Blade.URI)]
       ELSE sub' = [sub EXCEPT ![a].pc = "already"]
    /\ UNCHANGED <<pt, pc, s, currenttime, uri, data, ret, attempt, net, log, obs>>

\* line 128: the PUT; lines 129, 135: its answer
SubPut(a) ==
    /\ sub[a].pc = "put"
    /\ net' = [net EXCEPT !.puts = Append(@, [by |-> a, uri |-> sub[a].uri,
                                               body |-> sub[a].body])]
    /\ \E r \in RestAPICall :
        IF r.err # ErrNil
        THEN sub' = [sub EXCEPT ![a].pc = "put_failed"]
        ELSE sub' = [sub EXCEPT ![a].pc = "decode", ![a].data = r.data]
    /\ UNCHANGED <<pt, pc, s, currenttime, uri, data, ret, attempt, log, obs>>

\* lines 129-133 without line 130
SubPutFailedKeepsFlag(a) ==
    /\ sub[a].pc = "put_failed"
    /\ log' = [log EXCEPT !.errors = @ + 1]
    /\ sub' = [sub EXCEPT ![a].pc = "done", ![a].outcome = "put_failed"]
    /\ UNCHANGED <<pt, pc, s, currenttime, uri, data, ret, attempt, net, obs>>

\* lines 130-132
SubPutFailed(a) ==
    /\ sub[a].pc = "put_failed"
    /\ pt' = [pt EXCEPT !.TaskStatus = TRUE]
    /\ log' = [log EXCEPT !.errors = @ + 1]
    /\ sub' = [sub EXCEPT ![a].pc = "done", ![a].outcome = "put_failed"]
    /\ UNCHANGED <<pc, s, currenttime, uri, data, ret, attempt, net, obs>>

\* line 136: json.Unmarshal stores the fields of the response one by one into
\* the Task the poll loop reads, in the order the document lists them
SubDecodeField(a) ==
    /\ sub[a].pc = "decode"
    /\ \E f \in DOMAIN sub[a].data.fields :
        /\ pt' = [pt EXCEPT !.CurrentTask = Unmarshal(@, f :> sub[a].data.fields[f])]
        /\ sub' = [sub EXCEPT ![a].data.fields =
                       [g \in (DOMAIN sub[a].data.fields) \ {f} |-> sub[a].data.fields[g]]]
    /\ UNCHANGED <<pc, s, currenttime, uri, data, ret, attempt, net, log, obs>>

\* line 136: Unmarshal returns
SubDecodeEnd(a) ==
    /\ sub[a].pc = "decode"
    /\ DOMAIN sub[a].data.fields = {}
    /\ sub' = [sub EXCEPT ![a].pc = IF sub[a].data.ok THEN "done" ELSE "decode_failed",
                           ![a].outcome = IF sub[a].data.ok THEN "submitted" ELSE @,
                           ![a].data = NoData]
    /\ UNCHANGED <<pt, pc, s, currenttime, uri, data, ret, attempt, net, log, obs>>

\* lines 137-139
SubDecodeFailed(a) ==
    /\ sub[a].pc = "decode_failed"
    /\ pt' = [pt EXCEPT !.TaskStatus = TRUE]
    /\ log' = [log EXCEPT !.errors = @ + 1]
    /\ sub' = [sub EXCEPT ![a].pc = "done", ![a].outcome = "decode_failed"]
    /\ UNCHANGED <<pc, s, currenttime, uri, data, ret, attempt, net, obs>>

\* lines 142-143
SubAlreadySet(a) ==
    /\ sub[a].pc = "already"
    /\ pt' = [pt EXCEPT !.TaskStatus = TRUE]
    /\ sub' = [sub EXCEPT ![a].pc = "done", ![a].outcome = "already"]
    /\ UNCHANGED <<pc, s, currenttime, uri, data, ret, attempt, net, log, obs>>

SubmitPowerState(a) ==
    \/ SubQuery(a)
    \/ SubCompare(a)
    \/ SubPut(a)
    \/ SubPutFailed(a)
    \/ SubDecodeField(a)
    \/ SubDecodeEnd(a)
    \/ SubDecodeFailed(a)
    \/ SubAlreadySet(a)

(***************************************************************************)
(* PowerExecutor, lines 172-199, with GetCurrentTaskStatus, lines 150-168  *)
(***************************************************************************)
\* line 173, on entry with argument target
Enter(target) ==
    /\ attempt < MaxAttempts
    /\ attempt' = attempt + 1
    /\ s' = target
    /\ currenttime' = 0
    /\ ret' = "none"
    /\ obs' = NoObs(pt)
    /\ pc' = "reset_state"
    /\ UNCHANGED <<pt, uri, data, sub, net, log>>

PowerExecutor ==
    /\ pc = "idle"
    /\ \E target \in PowerStates : Enter(target)

\* line 175
Spawn ==
    /\ pc = "spawn"
    /\ sub' = [sub EXCEPT ![attempt] = [NoSub EXCEPT !.pc = "query", !.s = s]]
    /\ pc' = "loop"
    /\ UNCHANGED <<pt, s, currenttime, uri, data, ret, attempt, net, log, obs>>

\* The values an unsynchronised read of pt.TaskStatus may return: the last one
\* written or, while only the other goroutine has written true, the false that
\* ResetTask wrote.
ReadTaskStatus ==
    IF pt.TaskStatus /\ ~obs.mainDone THEN {TRUE, FALSE} ELSE {pt.TaskStatus}

\* line 176 with <= for <
LoopConditionOneMore(done, now, timeout) == ~done /\ now <= timeout

\* line 176 without !pt.TaskStatus
LoopConditionIgnoresDone(done, now, timeout) == now < timeout

\* line 176
LoopCondition(done, now, timeout) == ~done /\ now < timeout

LoopCheck ==
    /\ pc = "loop"
    /\ \E done \in ReadTaskStatus :
        /\ pc' = IF LoopCondition(done, currenttime, pt.Timeout) THEN "status" ELSE "after"
        /\ obs' = [obs EXCEPT !.doneRead = done]
    /\ UNCHANGED <<pt, s, currenttime, uri, data, ret, attempt, sub, net, log>>

\* lines 153-156 without the test of line 155
StatusReadURIUnchecked ==
    /\ pc = "status"
    /\ uri' = pt.CurrentTask.URI
    /\ obs' = [obs EXCEPT !.checks = @ + 1]
    /\ pc' = "status_get"
    /\ UNCHANGED <<pt, s, currenttime, data, ret, attempt, sub, net, log>>

\* lines 153-155, 164-167
StatusReadURI ==
    /\ pc = "status"
    /\ uri' = pt.CurrentTask.URI
    /\ obs' = [obs EXCEPT !.checks = @ + 1]
    /\ pc' = IF pt.CurrentTask.URI # EmptyURI THEN "status_get" ELSE "completed"
    /\ UNCHANGED <<pt, s, currenttime, data, ret, attempt, sub, net, log>>

\* lines 156-159, and 177-179 on failure
StatusGet ==
    /\ pc = "status_get"
    /\ net' = [net EXCEPT !.gets = @ + 1]
    /\ \E r \in RestAPICall :
        IF r.err # ErrNil
        THEN /\ ret' = r.err
             /\ obs' = [obs EXCEPT !.gets = @ + 1, !.pollErr = r.err]
             /\ pc' = "returned"
             /\ data' = data
        ELSE /\ data' = r.data
             /\ obs' = [obs EXCEPT !.gets = @ + 1]
             /\ pc' = "status_decode"
             /\ ret' = ret
    /\ UNCHANGED <<pt, s, currenttime, uri, attempt, sub, log>>

\* lines 161-163 with the error of line 177 dropped
StatusDecodeErrorIgnored ==
    /\ pc = "status_decode"
    /\ pt' = [pt EXCEPT !.CurrentTask = Unmarshal(@, data.fields)]
    /\ data' = NoData
    /\ obs' = [obs EXCEPT !.pollErr = IF data.ok THEN @ ELSE ErrDecode]
    /\ pc' = "completed"
    /\ UNCHANGED <<s, currenttime, uri, ret, attempt, sub, net, log>>

\* lines 161-163, and 177-179 on failure.  The fields of the GET response are
\* stored in one step; the goroutine's own stores interleave field by field, so
\* every mix of the two responses is reached.
StatusDecode ==
    /\ pc = "status_decode"
    /\ pt' = [pt EXCEPT !.CurrentTask = Unmarshal(@, data.fields)]
    /\ data' = NoData
    /\ IF ~data.ok
       THEN /\ ret' = ErrDecode
            /\ obs' = [obs EXCEPT !.pollErr = ErrDecode]
            /\ pc' = "returned"
       ELSE /\ pc' = "completed"
            /\ UNCHANGED <<ret, obs>>
    /\ UNCHANGED <<s, currenttime, uri, attempt, sub, net, log>>

\* line 180 without the test of the URI
TaskCompletedAnyURI(task) == TaskStateCompletedEqual(task.TaskState)

\* line 180
TaskCompleted(task) ==
    task.URI # EmptyURI /\ TaskStateCompletedEqual(task.TaskState)

\* lines 180-182
CheckCompleted ==
    /\ pc = "completed"
    /\ IF TaskCompleted(pt.CurrentTask)
       THEN /\ pt' = [pt EXCEPT !.TaskStatus = TRUE]
            /\ obs' = [obs EXCEPT !.mainDone = TRUE]
       ELSE UNCHANGED <<pt, obs>>
    /\ pc' = "sleep"
    /\ UNCHANGED <<s, currenttime, uri, data, ret, attempt, sub, net, log>>

\* lines 191-192
Sleep ==
    /\ pc = "sleep"
    /\ obs' = [obs EXCEPT !.sleeps = @ + 1]
    /\ currenttime' = currenttime + 1
    /\ pc' = "loop"
    /\ UNCHANGED <<pt, s, uri, data, ret, attempt, sub, net, log>>

\* line 194 with > for >=
TimedOutStrictly(now, timeout) == now > timeout

\* line 194
TimedOut(now, timeout) == ~(now < timeout)

\* lines 194-196
TimeoutCheck ==
    /\ pc = "after"
    /\ IF TimedOut(currenttime, pt.Timeout)
       THEN /\ log' = [log EXCEPT !.timeoutWarn = @ + 1]
            /\ obs' = [obs EXCEPT !.warned = @ + 1]
       ELSE UNCHANGED <<log, obs>>
    /\ pc' = "return"
    /\ UNCHANGED <<pt, s, currenttime, uri, data, ret, attempt, sub, net>>

\* lines 197-198
Return ==
    /\ pc = "return"
    /\ ret' = ErrNil
    /\ pc' = "returned"
    /\ UNCHANGED <<pt, s, currenttime, uri, data, attempt, sub, net, log, obs>>

(***************************************************************************)
(* One PowerExecutor invocation on a PowerTask, with its goroutine         *)
(***************************************************************************)
Main ==
    \/ PowerExecutor
    \/ ResetState
    \/ ResetStatus
    \/ ResetCurrentTask
    \/ Spawn
    \/ LoopCheck
    \/ StatusReadURI
    \/ StatusGet
    \/ StatusDecode
    \/ CheckCompleted
    \/ Sleep
    \/ TimeoutCheck
    \/ Return

Next == Main \/ \E a \in 1..MaxAttempts : SubmitPowerState(a)

Spec == Init /\ [][Next]_vars

\* The scheduler runs the calling goroutine whenever it can take a step, and
\* every remote call returns.
FairSpec == Spec /\ WF_vars(Main)

(***************************************************************************)
(* PowerExecutor invoked again on the same PowerTask                       *)
(***************************************************************************)
\* The goroutine of line 175 is never joined: PowerExecutor returns (lines 178,
\* 198) whatever line of SubmitPowerState it has reached.  Here a submission
\* whose remote calls were answered has its write of line 130, 137 or 143
\* still to do.
SubmissionPending(a) == sub[a].pc \in {"put_failed", "decode_failed", "already"}

\* The caller retries the same target on the same PowerTask after PowerExecutor
\* returned, while the submission of the returned invocation is still pending.
PowerExecutorAgain ==
    /\ pc = "returned"
    /\ SubmissionPending(attempt)
    /\ Enter(s)

\* A PowerTask fresh from NewPowerTask for a unit with hardware, Timeout set to 1.
InitRepeat ==
    /\ pt = NewPowerTask([URI |-> HardwareURI, PowerState |-> EmptyString], 1)
    /\ InitRest
    /\ pc = "idle"

NextRepeat == Next \/ PowerExecutorAgain

SpecRepeat == InitRepeat /\ [][NextRepeat]_vars

(***************************************************************************)
(* Properties                                                              *)
(***************************************************************************)
Max(a, b) == IF a > b THEN a ELSE b

PutsBy(a) == SelectSeq(net.puts, LAMBDA p : p.by = a)

\* Equality of strings ignoring case, letter by letter.
SameLetter(c, d) ==
    \/ c = d
    \/ \E i \in DOMAIN LowerLetters : {c, d} = {LowerLetters[i], UpperLetters[i]}

EqualIgnoringCase(x, y) ==
    /\ Len(x) = Len(y)
    /\ \A i \in 1..Len(x) : SameLetter(x[i], y[i])

\* C1: a submission whose freshly queried power state equals its target issues no
\* PUT and leaves the task handle empty, and once it has returned the completion
\* flag is true.
C1_AlreadySetIsNoOp ==
    \A a \in 1..MaxAttempts :
        sub[a].queried = sub[a].s =>
            /\ PutsBy(a) = <<>>
            /\ pt.CurrentTask.URI = EmptyURI
            /\ sub[a].pc = "done" => (pt.TaskStatus /\ sub[a].outcome = "already")

C1_Witness ==
    /\ sub[1].pc = "done"
    /\ sub[1].queried = P_OFF
    /\ sub[1].s = P_OFF
    /\ pt.TaskStatus
    /\ pc = "returned"

\* C2: a submission whose successfully queried power state differs from its target
\* (Unknown included) issues exactly one PUT, to <unit-uri>/powerState, with body
\* {powerState: target, powerControl: "MomentaryPress"}, however it interleaves
\* with the poll loop.
C2_ExpectedBody(target) ==
    [powerState   |-> CASE target = P_ON  -> <<"O","n">>
                        [] target = P_OFF -> <<"O","f","f">>
                        [] OTHER          -> <<"U","N","K","N","O","W","N">>,
     powerControl |-> <<"M","o","m","e","n","t","a","r","y","P","r","e","s","s">>]

C2_ExactlyOnePut ==
    \A a \in 1..MaxAttempts :
        (sub[a].queried # 0 /\ sub[a].queried # sub[a].s) =>
            /\ sub[a].pc \in {"compare", "put"} => PutsBy(a) = <<>>
            /\ sub[a].pc \notin {"compare", "put"} =>
                   PutsBy(a) = << [by   |-> a,
                                   uri  |-> <<"rest", "server-hardware", "1", "powerState">>,
                                   body |-> C2_ExpectedBody(sub[a].s)] >>

C2_Witness ==
    /\ sub[1].queried = P_UKNOWN
    /\ sub[1].s = P_ON
    /\ sub[1].pc = "done"
    /\ Len(net.puts) = 1
    /\ obs.gets > 0

\* C3: whatever the PowerTask held before, ResetTask leaves State = Unknown,
\* TaskStatus = false and an empty CurrentTask (URI, Name and Owner empty).
C3_ResetTaskClears ==
    pc = "spawn" =>
        /\ pt.State = P_UKNOWN
        /\ pt.TaskStatus = FALSE
        /\ pt.CurrentTask.URI = <<>>
        /\ pt.CurrentTask.Name = <<>>
        /\ pt.CurrentTask.Owner = <<>>

C3_Witness ==
    /\ pc = "spawn"
    /\ obs.prior.State = P_ON
    /\ obs.prior.TaskStatus = TRUE
    /\ obs.prior.CurrentTask.URI # <<>>
    /\ obs.prior.CurrentTask.Owner # <<>>

\* C4: GetCurrentPowerState classifies every remote power-state string, and
\* ignoring case: the state is On iff the string is "On" ignoring case, Off iff it
\* is "Off" ignoring case, Unknown with one warning and no error otherwise.
C4_ClassificationTotal ==
    (pc = "queried" /\ obs.prior.Blade.URI # EmptyURI /\ ret # ErrTransport) =>
        LET str == pt.Blade.PowerState IN
        /\ ret = ErrNil
        /\ pt.State \in PowerStates
        /\ pt.State = P_ON  <=> EqualIgnoringCase(str, <<"O","n">>)
        /\ pt.State = P_OFF <=> EqualIgnoringCase(str, <<"O","f","f">>)
        /\ pt.State = P_UKNOWN <=> log.unknownWarn = 1
        /\ pt.State # P_UKNOWN <=> log.unknownWarn = 0

C4_Witness ==
    /\ pc = "queried"
    /\ pt.Blade.PowerState = <<"o","F","f">>
    /\ pt.State = P_OFF
    /\ obs.prior.State = P_ON

\* C5: with an empty hardware URI GetCurrentPowerState returns the
\* missing-hardware error, sets the state to Unknown and looks nothing up.
C5_EmptyURIFails ==
    (pc = "queried" /\ obs.prior.Blade.URI = <<>>) =>
        /\ ret = "Can't get power on blade without hardware"
        /\ pt.State = P_UKNOWN
        /\ net.lookups = 0
        /\ pt.Blade = obs.prior.Blade

C5_Witness ==
    /\ pc = "queried"
    /\ obs.prior.Blade.URI = <<>>
    /\ obs.prior.State = P_ON
    /\ pt.State = P_UKNOWN

\* C6: for Timeout >= 0 an invocation begins at most Timeout loop iterations
\* (status checks and sleeps), none when Timeout = 0, and eventually returns.
C6_BoundedPolling ==
    /\ [](pt.Timeout >= 0 => (obs.checks <= pt.Timeout /\ obs.sleeps <= pt.Timeout))
    /\ [](pt.Timeout = 0 => (obs.checks = 0 /\ obs.sleeps = 0 /\ obs.gets = 0))
    /\ <>(pc = "returned")

C6_Witness ==
    /\ pc = "returned"
    /\ pt.Timeout = 2
    /\ obs.checks = 2
    /\ obs.sleeps = 2
    /\ obs.gets = 2

\* C7: when no poll call fails, the poll loop never sees the task Completed and the
\* submission does not end the attempt itself, PowerExecutor runs its Timeout
\* iterations, warns of the timeout once and returns nil with the flag still false.
C7_TimeoutReturnsNil ==
    (/\ pc = "returned"
     /\ obs.pollErr = ErrNil
     /\ ~obs.mainDone
     /\ sub[attempt].outcome \notin {"already", "put_failed", "decode_failed"}) =>
        /\ log.timeoutWarn = 1
        /\ ret = "nil"
        /\ pt.TaskStatus = FALSE
        /\ obs.sleeps = Max(pt.Timeout, 0)

C7_Witness ==
    /\ pc = "returned"
    /\ ret = "nil"
    /\ log.timeoutWarn = 1
    /\ pt.TaskStatus = FALSE
    /\ pt.Timeout = 2
    /\ obs.gets = 2
    /\ sub[1].outcome = "submitted"
    /\ pt.CurrentTask.TaskState = TaskStateRunning

\* C8: when GetCurrentTaskStatus fails in the poll loop, PowerExecutor returns that
\* error in that iteration: no later status check, no sleep in it, no timeout
\* warning, and the executor has not written the completion flag.
C8_PollErrorReturned ==
    obs.pollErr # ErrNil =>
        /\ pc = "returned"
        /\ ret = obs.pollErr
        /\ ret \in {"transport failure", "decode failure"}
        /\ obs.checks = currenttime + 1
        /\ obs.sleeps = currenttime
        /\ log.timeoutWarn = 0
        /\ ~obs.mainDone

C8_Witness ==
    /\ pc = "returned"
    /\ ret = "decode failure"
    /\ obs.checks = 2
    /\ obs.sleeps = 1
    /\ pt.TaskStatus = FALSE

\* C9 as stated: when the PUT fails or its response cannot be decoded, the
\* submission sets the flag and PowerExecutor returns nil in every interleaving.
C9_SubmissionFailureReturnsNil ==
    \A a \in 1..MaxAttempts :
        sub[a].outcome \in {"put_failed", "decode_failed"} =>
            /\ pt.TaskStatus
            /\ pc = "returned" => ret = "nil"

\* C9 as amended: when the PUT fails or its response cannot be decoded, the
\* submission sets the flag; PowerExecutor returns nil when the PUT failed, and
\* when the decode failed it returns nil unless the failed decode had stored a task
\* URI and a poll of that URI failed, whose error it then returns.
C9_SubmissionFailureNotReturned ==
    \A a \in 1..MaxAttempts :
        sub[a].outcome \in {"put_failed", "decode_failed"} =>
            /\ pt.TaskStatus
            /\ sub[a].pc = "done"
            /\ pc = "returned" =>
                \/ ret = "nil"
                \/ /\ sub[a].outcome = "decode_failed"
                   /\ ret = obs.pollErr
                   /\ ret \in {"transport failure", "decode failure"}
                   /\ obs.gets > 0
                   /\ pt.CurrentTask.URI # <<>>

C9_Witness ==
    /\ sub[1].outcome = "put_failed"
    /\ pc = "returned"
    /\ ret = "nil"
    /\ obs.checks = 1
    /\ pt.Timeout = 2

\* C10: in the iteration whose check finds a task handle with a non-empty URI and
\* a state equal to "Completed" ignoring case, the flag is set; from then on the
\* attempt makes no status check and no GET, and PowerExecutor returns nil.
C10_CompletedHere ==
    /\ pc = "completed"
    /\ pt.CurrentTask.URI # <<>>
    /\ EqualIgnoringCase(pt.CurrentTask.TaskState, <<"C","o","m","p","l","e","t","e","d">>)

C10_EarlyTermination ==
    /\ [][(C10_CompletedHere /\ pc' # pc) => (pt'.TaskStatus /\ obs'.mainDone)]_vars
    /\ [][obs.mainDone =>
            (obs'.checks = obs.checks /\ obs'.gets = obs.gets /\ net'.gets = net.gets)]_vars
    /\ [](obs.mainDone =>
            /\ pt.TaskStatus
            /\ obs.pollErr = ErrNil
            /\ pc = "returned" => ret = "nil")

C10_Witness ==
    /\ obs.mainDone
    /\ pc = "returned"
    /\ ret = "nil"
    /\ obs.checks = 1
    /\ pt.Timeout = 2
    /\ pt.CurrentTask.TaskState = <<"c","o","m","p","l","e","t","e","d">>

\* C11: when the submission's query of the current power state fails (empty URI
\* or lookup failure), that step changes neither the completion flag nor the task
\* handle, and the submission has returned without ever issuing a PUT.
C11_QueryFailureSubmitsNothing ==
    /\ [][\A a \in 1..MaxAttempts :
            (sub[a].outcome # "query_failed" /\ sub'[a].outcome = "query_failed") =>
                /\ pt'.TaskStatus = pt.TaskStatus
                /\ pt'.CurrentTask = pt.CurrentTask
                /\ net'.puts = net.puts]_vars
    /\ [](\A a \in 1..MaxAttempts :
            sub[a].outcome = "query_failed" =>
                /\ sub[a].pc = "done"
                /\ PutsBy(a) = <<>>
                /\ pt.TaskStatus = FALSE
                /\ pt.CurrentTask = EmptyTask)

C11_Witness ==
    /\ sub[1].outcome = "query_failed"
    /\ net.lookups = 1
    /\ pt.Blade.URI # <<>>
    /\ obs.checks = 1

\* C12: a status query that finds the task handle's URI empty makes no remote
\* call, changes no field of the PowerTask and returns no error.
C12_EmptyHandleIsNoOp ==
    /\ [][(pc = "status" /\ pc' # pc /\ pt.CurrentTask.URI = <<>>) =>
            /\ pt' = pt
            /\ net' = net
            /\ ret' = ret
            /\ obs'.pollErr = "nil"
            /\ pc' = "completed"]_vars
    /\ [](pc \in {"status_get", "status_decode"} => uri # <<>>)

C12_Witness ==
    /\ pc = "completed"
    /\ uri = <<>>
    /\ obs.checks = 2
    /\ net.gets = 0
    /\ Len(net.puts) = 1

\* C13: the timeout warning is emitted only when the loop was left with the
\* iteration bound reached and the completion flag read as false.
C13_WarningOnlyWhenNotDone ==
    log.timeoutWarn > 0 =>
        /\ currenttime >= pt.Timeout
        /\ obs.doneRead = FALSE
        /\ ~obs.mainDone

C15_NoRemoteCallOnceDone ==
    [][pt.TaskStatus => (net'.gets = net.gets /\ net'.puts = net.puts)]_vars

\* C16: when the PUT succeeded and its decoded response carried no task URI, the
\* attempt issues no GET and never sets the completion flag, and PowerExecutor
\* returns nil after exactly Timeout iterations, with the timeout warning.
C16_SubmittedWithoutURI(a) ==
    /\ a = attempt
    /\ pt.CurrentTask.URI = <<>>
    /\ \/ sub[a].outcome = "submitted"
       \/ /\ sub[a].pc = "decode"
          /\ sub[a].data.ok
          /\ "URI" \notin DOMAIN sub[a].data.fields

C16_NoURINeverCompletes ==
    \A a \in 1..MaxAttempts :
        C16_SubmittedWithoutURI(a) =>
            /\ obs.gets = 0
            /\ pt.TaskStatus = FALSE
            /\ ~obs.mainDone
            /\ pc = "returned" =>
                /\ ret = "nil"
                /\ obs.checks = Max(pt.Timeout, 0)
                /\ obs.sleeps = Max(pt.Timeout, 0)
                /\ log.timeoutWarn = 1

C16_Witness ==
    /\ sub[1].outcome = "submitted"
    /\ pt.CurrentTask.URI = <<>>
    /\ pt.CurrentTask.TaskState = <<"C","o","m","p","l","e","t","e","d">>
    /\ pc = "returned"
    /\ pt.Timeout = 2
    /\ obs.checks = 2

\* C17: across repeated invocations, a completion flag the poll loop reads as
\* true was written by the invocation's own poll loop (line 181) or by the
\* submission it spawned (lines 130, 137, 143), never by the submission of an
\* earlier invocation.  ResetTask writes false, and those are the only writes of
\* true, so a true read with none of the invocation's own writes done is a leak.
C17_OwnWriteOfDone(a) ==
    \/ obs.mainDone
    \/ sub[a].outcome \in {"put_failed", "decode_failed", "already"}

C17_NoLeakAcrossAttempts ==
    \A a \in 1..MaxAttempts :
        (a = attempt /\ pc \in {"after", "return"} /\ obs.doneRead = TRUE)
            => C17_OwnWriteOfDone(a)

\* C18: within an invocation, a GET on the task URI is only issued after the
\* invocation's own PUT was answered and a non-empty task URI was stored from its
\* response; and when the poll loop sets the completion flag (line 181) the task
\* handle's URI is non-empty.
C18_GetFollowsPut ==
    /\ [][(obs'.mainDone /\ ~obs.mainDone) =>
            (pt.CurrentTask.URI # EmptyURI /\ pt'.CurrentTask.URI # EmptyURI)]_vars
    /\ [](\A a \in 1..MaxAttempts :
            (a = attempt /\ (pc = "status_get" \/ obs.gets > 0)) =>
                /\ uri # EmptyURI
                /\ pt.CurrentTask.URI # EmptyURI
                /\ Len(PutsBy(a)) = 1
                /\ sub[a].pc \in {"decode", "decode_failed", "done"}
                /\ sub[a].outcome \in {"none", "submitted", "decode_failed"})

C18_Witness ==
    /\ obs.prior.CurrentTask = StaleTask
    /\ sub[1].outcome = "submitted"
    /\ Len(net.puts) = 1
    /\ obs.gets = 1
    /\ obs.mainDone
    /\ pt.CurrentTask.URI = TaskURI

\* C19: when the submission's power-state query fails, the completion flag stays
\* false, no PUT and no GET is issued, and PowerExecutor returns nil after
\* exactly Timeout loop iterations with the timeout warning, as on a timeout.
C19_QueryFailureLooksLikeTimeout ==
    \A a \in 1..MaxAttempts :
        (a = attempt /\ sub[a].outcome = "query_failed") =>
            /\ pt.TaskStatus = FALSE
            /\ ~obs.mainDone
            /\ net.gets = 0
            /\ net.puts = <<>>
            /\ obs.pollErr = ErrNil
            /\ pc = "returned" =>
                /\ ret = ErrNil
                /\ obs.checks = Max(pt.Timeout, 0)
                /\ obs.sleeps = Max(pt.Timeout, 0)
                /\ log.timeoutWarn = 1

C19_Witness ==
    /\ sub[1].outcome = "query_failed"
    /\ pt.Blade.URI = EmptyURI
    /\ pc = "returned"
    /\ ret = ErrNil
    /\ pt.Timeout = 2
    /\ obs.sleeps = 2
    /\ log.timeoutWarn = 1

\* C20: when the hardware lookup of GetCurrentPowerState fails (the unit's URI
\* non-empty), the error is returned and State, Blade, TaskStatus and
\* CurrentTask keep the values they had.
C20_LookupFailureChangesNothing ==
    (pc = "queried" /\ obs.prior.Blade.URI # EmptyURI /\ ret # ErrNil) =>
        /\ ret = ErrTransport
        /\ net.lookups = 1
        /\ pt.State = obs.prior.State
        /\ pt.Blade = obs.prior.Blade
        /\ pt.TaskStatus = obs.prior.TaskStatus
        /\ pt.CurrentTask = obs.prior.CurrentTask
        /\ log.unknownWarn = 0

C20_Witness ==
    /\ pc = "queried"
    /\ ret = ErrTransport
    /\ pt.State = P_ON
    /\ pt.TaskStatus
    /\ pt.CurrentTask = StaleTask
    /\ pt.Blade.URI = HardwareURI

====
